---- MODULE Spec2Model ----
(***************************************************************************)
(* CardioGuard AI (src/new/app.py): a Streamlit script that loads a        *)
(* pickled classifier once per process, reads eleven form widgets, derives *)
(* bmi / bp_diff / bmi_cat, calls the classifier and renders a risk badge  *)
(* and a metrics row.                                                      *)
(*                                                                         *)
(* Python floats are IEEE-754 binary64.  TLC integers are 32 bits wide, so *)
(* a binary64 value is kept as a record [m, e] standing for m * 2^e, with  *)
(* m a 53-bit natural held as a little-endian sequence of 15-bit limbs.    *)
(* Every float operation rounds to nearest, ties to even, as the hardware  *)
(* does.                                                                   *)
(***************************************************************************)
EXTENDS Integers, Sequences, FiniteSets, TLC

----------------------------------------------------------------------------
(* Naturals of arbitrary size: little-endian limb sequences, no leading    *)
(* zero limb, zero is the empty sequence.                                  *)

LimbBits == 15
Base == 2^LimbBits

\* drop leading zero limbs
BigNorm(s) ==
  IF s = <<>> \/ s[Len(s)] # 0 THEN s
  ELSE LET zeros == CHOOSE k \in 1..Len(s) :
                      /\ \A j \in (Len(s) - k + 1)..Len(s) : s[j] = 0
                      /\ k = Len(s) \/ s[Len(s) - k] # 0
       IN  SubSeq(s, 1, Len(s) - zeros)

RECURSIVE BigFromNat(_)
BigFromNat(n) ==
  IF n = 0 THEN <<>> ELSE <<n % Base>> \o BigFromNat(n \div Base)

RECURSIVE BigToNat(_)
BigToNat(a) ==
  IF a = <<>> THEN 0 ELSE a[1] + Base * BigToNat(Tail(a))

Limb(a, i) == IF i <= Len(a) THEN a[i] ELSE 0

\* -1, 0, 1 as a < b, a = b, a > b: decided by the highest limb that differs
BigCmp(a, b) ==
  IF Len(a) < Len(b) THEN -1
  ELSE IF Len(a) > Len(b) THEN 1
  ELSE IF a = b THEN 0
  ELSE LET same == CHOOSE k \in 0..(Len(a) - 1) :
                     /\ \A j \in (Len(a) - k + 1)..Len(a) : a[j] = b[j]
                     /\ a[Len(a) - k] # b[Len(a) - k]
           i    == Len(a) - same
       IN  IF a[i] < b[i] THEN -1 ELSE 1

\* a + b for limbs below Base: the carry into limb i is 1 exactly when some
\* lower limb pair overflows and every pair between is Base - 1
BigAdd(a, b) ==
  LET n == IF Len(a) > Len(b) THEN Len(a) ELSE Len(b)
      pair == [i \in 1..(n + 1) |-> Limb(a, i) + Limb(b, i)]
      CarryIn(i) == IF \E j \in 1..(i - 1) :
                         /\ pair[j] >= Base
                         /\ \A l \in (j + 1)..(i - 1) : pair[l] = Base - 1
                    THEN 1 ELSE 0
  IN  BigNorm([i \in 1..(n + CarryIn(n + 1)) |->
                 (pair[i] + CarryIn(i)) % Base])

\* a - b, for a >= b: the borrow into limb i is 1 exactly when some lower limb
\* of a is below b's and every pair between is equal
BigSub(a, b) ==
  LET BorrowIn(i) == IF \E j \in 1..(i - 1) :
                          /\ a[j] < Limb(b, j)
                          /\ \A l \in (j + 1)..(i - 1) : a[l] = Limb(b, l)
                     THEN 1 ELSE 0
  IN  BigNorm([i \in 1..Len(a) |->
                 (a[i] - Limb(b, i) - BorrowIn(i) + Base) % Base])

ShiftLimbs(a, n) ==
  IF a = <<>> \/ n = 0 THEN a ELSE [i \in 1..n |-> 0] \o a

\* a * k, for 0 <= k <= Base: low and high halves of the limb products
BigMulSmall(a, k) ==
  IF k = 1 THEN a
  ELSE BigAdd([i \in 1..Len(a) |-> (a[i] * k) % Base],
              [i \in 1..(Len(a) + 1) |->
                 IF i = 1 THEN 0 ELSE (a[i - 1] * k) \div Base])

\* sum over i of the low (half = 0) or high (half = 1) half of a[i] * b[c-i+1]
RECURSIVE ColumnSum(_, _, _, _, _)
ColumnSum(a, b, c, i, half) ==
  IF i = 0 THEN 0
  ELSE LET j == c - i + 1
           p == IF j >= 1 /\ j <= Len(b) THEN a[i] * b[j] ELSE 0
       IN  (IF half = 0 THEN p % Base ELSE p \div Base)
           + ColumnSum(a, b, c, i - 1, half)

\* a * b, by columns: column c holds the low halves of the products of weight
\* c and the high halves of the products of weight c - 1
BigMul(a, b) ==
  LET n == Len(a) + Len(b)
      Col(c) == ColumnSum(a, b, c, Len(a), 0)
                + (IF c > 1 THEN ColumnSum(a, b, c - 1, Len(a), 1) ELSE 0)
  IN  IF a = <<>> \/ b = <<>> THEN <<>>
      ELSE LET col == [c \in 1..n |-> Col(c)]
           IN  BigAdd([c \in 1..n |-> col[c] % Base],
                      [c \in 1..(n + 1) |->
                         IF c = 1 THEN 0 ELSE col[c - 1] \div Base])

\* a * 2^n
BigShl(a, n) == ShiftLimbs(BigMulSmall(a, 2^(n % LimbBits)), n \div LimbBits)

\* a \div 2^n
BigShr(a, n) ==
  LET q == n \div LimbBits
      r == n % LimbBits
  IN  IF q >= Len(a) THEN <<>>
      ELSE BigNorm([i \in 1..(Len(a) - q) |->
                      (a[i + q] \div 2^r)
                      + (Limb(a, i + q + 1) % 2^r) * 2^(LimbBits - r)])

\* bits of one limb, by halving the range 0..LimbBits
BitLenSmall(n) ==
  IF n < 2^7
  THEN IF n < 2^3
       THEN (IF n < 2 THEN n ELSE IF n < 2^2 THEN 2 ELSE 3)
       ELSE IF n < 2^5 THEN (IF n < 2^4 THEN 4 ELSE 5)
       ELSE (IF n < 2^6 THEN 6 ELSE 7)
  ELSE IF n < 2^11
       THEN IF n < 2^9 THEN (IF n < 2^8 THEN 8 ELSE 9)
            ELSE (IF n < 2^10 THEN 10 ELSE 11)
       ELSE IF n < 2^13 THEN (IF n < 2^12 THEN 12 ELSE 13)
       ELSE (IF n < 2^14 THEN 14 ELSE 15)

BitLen(a) ==
  IF a = <<>> THEN 0 ELSE LimbBits * (Len(a) - 1) + BitLenSmall(a[Len(a)])

BigIsOdd(a) == a # <<>> /\ a[1] % 2 = 1

BigOne == <<1>>

----------------------------------------------------------------------------
(* binary64 values >= 0 in the normal range.                               *)

MantBits == 53
FloatZero == [m |-> <<>>, e |-> 0]

\* round to nearest, ties to even: cmp compares twice the remainder with the
\* divisor, q is the quotient
RoundsUp(cmp, q) == cmp > 0 \/ (cmp = 0 /\ BigIsOdd(q))

\* the largest k' <= k with k' * d <= cur, and cur - k' * d; prod is k * d
RECURSIVE QuotFit(_, _, _, _)
QuotFit(cur, d, k, prod) ==
  IF BigCmp(prod, cur) <= 0 THEN [k |-> k, r |-> BigSub(cur, prod)]
  ELSE QuotFit(cur, d, k - 1, BigSub(prod, d))

\* one step of schoolbook division: the largest k with k * d <= cur and the
\* remainder cur - k * d, for cur < d * Base and d's top limb >= Base / 2 (the
\* estimate from the top limbs is then at most 2 too large)
QuotDigit(cur, d) ==
  LET t    == Len(d)
      top2 == Limb(cur, t + 1) * Base + Limb(cur, t)
      est  == IF top2 \div d[t] > Base - 1 THEN Base - 1 ELSE top2 \div d[t]
  IN  QuotFit(cur, d, est, BigMulSmall(d, est))

\* limbs i, i-1, .., 1 of a are brought down one at a time onto remainder r
RECURSIVE DivLimbs(_, _, _, _, _)
DivLimbs(a, d, i, quot, r) ==
  IF i = 0 THEN [q |-> BigNorm(quot), r |-> r]
  ELSE CHOOSE res \in
         {DivLimbs(a, d, i - 1, <<step.k>> \o quot, step.r) :
            step \in {QuotDigit(BigNorm(<<a[i]>> \o r), d)}} : TRUE

\* division by 2^bits
ShiftDiv(a, bits) ==
  LET quot == BigShr(a, bits)
  IN  [q |-> quot, r |-> BigSub(a, BigShl(quot, bits))]

\* division of an = a * 2^sh by dn = d * 2^sh, an >= dn, dn's top limb
\* >= Base / 2: the top Len(dn) - 1 limbs of an are below dn and start the
\* remainder; the remainder of a by d is that of an by dn, scaled back
LongDiv(an, dn, sh) ==
  LET low == Len(an) - Len(dn) + 1
      res == DivLimbs(an, dn, low, <<>>, SubSeq(an, low + 1, Len(an)))
  IN  [q |-> res.q, r |-> BigShr(res.r, sh)]

\* [q |-> a \div d, r |-> a % d], for d > 0
BigDivMod(a, d) ==
  LET len == BitLen(d)
      sh  == (LimbBits - (len % LimbBits)) % LimbBits
  IN  IF BigCmp(d, BigShl(BigOne, len - 1)) = 0 THEN ShiftDiv(a, len - 1)
      ELSE IF BigCmp(a, d) < 0 THEN [q |-> <<>>, r |-> a]
      ELSE LongDiv(BigShl(a, sh), BigShl(d, sh), sh)

\* TLC evaluates LET definitions and operator arguments on demand, nested
\* inside whatever asks for them first; a value bound through a singleton
\* set (v \in {e}) is evaluated there and then, which keeps the evaluation
\* depth of a chain of float operations bounded.

\* a mantissa in [2^52, 2^53]: 2^53 is brought back into range
Renormalise(mant, ex) ==
  IF BitLen(mant) > MantBits
  THEN [m |-> BigShr(mant, 1), e |-> ex - MantBits + 2]
  ELSE [m |-> mant, e |-> ex - MantBits + 1]

\* q in [2^52, 2^53) and remainder r of a division by d: round to nearest,
\* ties to even; the result stands for mantissa * 2^(ex - 52)
RoundQuotient(qr, d, ex) ==
  Renormalise(IF RoundsUp(BigCmp(BigAdd(qr.r, qr.r), d), qr.q)
              THEN BigAdd(qr.q, BigOne) ELSE qr.q, ex)

\* N2 / D1 in [1, 2): the quotient of N2 * 2^52 by D1 has 53 bits
RoundScaled(N2, D1, ex) ==
  CHOOSE res \in
    {RoundQuotient(qr, D1, ex) :
       qr \in {BigDivMod(BigShl(N2, MantBits - 1), D1)}} : TRUE

\* N1 and D1 of the same bit length: N1 / D1 in (1/2, 2)
RoundAligned(N1, D1, ex) ==
  LET low == BigCmp(N1, D1) < 0
  IN  RoundScaled(IF low THEN BigAdd(N1, N1) ELSE N1, D1,
                  IF low THEN ex - 1 ELSE ex)

RoundValue(N, D, E) ==
  IF N = <<>> THEN FloatZero
  ELSE LET bl == BitLen(N) - BitLen(D)
       IN  RoundAligned(IF bl < 0 THEN BigShl(N, -bl) ELSE N,
                        IF bl > 0 THEN BigShl(D, bl) ELSE D, E + bl)

\* the binary64 nearest to (N / D) * 2^E, ties to even; N >= 0, D > 0
RoundRatio(N, D, E) ==
  CHOOSE res \in {RoundValue(num, den, E) : num \in {N}, den \in {D}} : TRUE

FloatFromInt(n) == RoundRatio(BigFromNat(n), BigOne, 0)

\* a decimal literal num/den as the parser reads it
FloatLiteral(num, den) == RoundRatio(BigFromNat(num), BigFromNat(den), 0)

FloatDiv(x, y) == RoundRatio(x.m, y.m, x.e - y.e)

FloatMul(x, y) == RoundRatio(BigMul(x.m, y.m), BigOne, x.e + y.e)

FloatLess(x, y) ==
  IF y.m = <<>> THEN FALSE
  ELSE IF x.m = <<>> THEN TRUE
  ELSE IF x.e # y.e THEN x.e < y.e
  ELSE BigCmp(x.m, y.m) < 0

FloatMax(x, y) == IF FloatLess(x, y) THEN y ELSE x

\* n / 2^s rounded half-even, quot being n \div 2^s
ShiftRounded(n, s, quot) ==
  LET rem == BigSub(n, BigShl(quot, s))
  IN  BigToNat(quot)
      + (IF RoundsUp(BigCmp(BigAdd(rem, rem), BigShl(BigOne, s)), quot)
         THEN 1 ELSE 0)

\* format(x, ".<digits>f") read back as the integer x * 10^digits rounded
\* half-even on the exact binary value
FormatValue(x, scale) ==
  IF x.m = <<>> THEN 0
  ELSE LET scaled == BigMul(x.m, BigFromNat(scale))
       IN  IF x.e >= 0 THEN BigToNat(BigShl(scaled, x.e))
           ELSE ShiftRounded(scaled, -x.e, BigShr(scaled, -x.e))

FormatFixed(x, scale) ==
  CHOOSE res \in {FormatValue(v, scale) : v \in {x}} : TRUE

----------------------------------------------------------------------------
(* The program state.                                                      *)
(*   disk      the artifact file cardio_pipeline.pkl: <<>> when it cannot  *)
(*             be loaded, <<k>> when it unpickles to classifier k          *)
(*   cache     the st.cache_resource entry of load_prediction_model        *)
(*   widgets   the session's widget values; predict_btn is the button's    *)
(*             value in the current script run                             *)
(*   pc        position of the current script run ("idle": run finished)   *)
(*   model .. confidence   the script's globals, <<>> while unassigned     *)
(*   display   the elements the current run has put on the page            *)
(*   calls     the classifier calls of the current run, with what they     *)
(*             returned; raised: a classifier call of this run raised      *)
(*   loads     successful joblib.load calls of the process                 *)
(*   loadAttemptsRun / runLoadFailed / sessionFailed   joblib.load calls   *)
(*             of this run, whether this run's load failed, whether a load *)
(*             of this session has failed                                  *)

VARIABLES disk, cache, loads, widgets, predict_btn, pc, model, input_data,
          prediction, probability, confidence, calls, raised, display,
          loadAttemptsRun, runLoadFailed, sessionFailed

vars == <<disk, cache, loads, widgets, predict_btn, pc, model, input_data,
          prediction, probability, confidence, calls, raised, display,
          loadAttemptsRun, runLoadFailed, sessionFailed>>

\* distinct artifacts the environment may put on disk
NumClassifiers == 2
\* cap of the loads counter
MaxLoads == 3

MinHeight == 120
MaxHeight == 220
MinWeight == 30
MaxWeight == 200
MinApHi == 80
MaxApHi == 220
MinApLo == 40
MaxApLo == 160

\* probabilities are returned on the grid k / ProbGrid, k in 0..ProbGrid
ProbGrid == 1000

Classifiers == 1..NumClassifiers

\* the widgets' initial values (third argument of number_input, first option
\* of selectbox)
DefaultWidgets ==
  [age_years |-> 45, gender |-> 1, height |-> 165, weight |-> 70,
   ap_hi |-> 120, ap_lo |-> 80, cholesterol |-> 1, gluc |-> 1,
   smoke |-> 0, alco |-> 0, active |-> 0]

\* the values a user sets a widget to in the interactive specification
WidgetSamples ==
  [age_years |-> {45}, gender |-> {1, 2}, height |-> {160, 165},
   weight |-> {64, 70}, ap_hi |-> {MinApHi, 120}, ap_lo |-> {80, MaxApLo},
   cholesterol |-> {1, 3}, gluc |-> {1}, smoke |-> {0}, alco |-> {0},
   active |-> {0}]

WidgetNames == DOMAIN DefaultWidgets

EmptyDisplay ==
  [load_error |-> FALSE, form |-> FALSE, caption |-> <<>>, rule |-> FALSE,
   exception |-> FALSE, badge |-> <<>>, radar |-> FALSE, metrics |-> <<>>,
   tabs |-> FALSE]

----------------------------------------------------------------------------
(* The classifier capability.  The artifact is opaque; what the script     *)
(* relies on is a deterministic binary classifier: predict_proba returns   *)
(* one row (p0, p1) with p0 + p1 = 1 and predict returns the class of the  *)
(* larger probability.  Classifier k on record r answers                   *)
(* p1 = ((k - 1) * 268 + hash(r)) mod 1001 thousandths, so that different  *)
(* artifacts and different records give different answers.  A row is kept  *)
(* as its thousandths <<k0, k1>>; the float the script reads from it is    *)
(* the binary64 nearest to k / 1000.                                       *)

RecordHash(r) ==
  r.age_years + r.height + r.weight + r.ap_hi + r.ap_lo + r.bp_diff
  + r.gender + r.cholesterol + r.gluc + r.smoke + r.active + r.alco
  + r.bmi_cat + BigToNat(BigShr(r.bmi.m, 40))

PredictProbaRow(k, r) ==
  LET k1 == ((k - 1) * 268 + (RecordHash(r) % (ProbGrid + 1))) % (ProbGrid + 1)
  IN  <<ProbGrid - k1, k1>>

PredictClass(k, r) ==
  LET row == PredictProbaRow(k, r) IN IF row[2] > row[1] THEN 1 ELSE 0

\* the binary64 nearest to k / ProbGrid, for every k of the grid
ProbFloat == [k \in 0..ProbGrid |-> FloatLiteral(k, ProbGrid)]

RowFloat(row, i) == ProbFloat[row[i]]

----------------------------------------------------------------------------
(* Pure pieces of the script.                                              *)

\* the float and integer literals of the script, as binary64
Hundred == FloatFromInt(100)
Float18_5 == FloatLiteral(185, 10)
Float25 == FloatFromInt(25)
Float30 == FloatFromInt(30)
Float0_35 == FloatLiteral(35, 100)
Float0_65 == FloatLiteral(65, 100)

\* variant: the decorator is missing, every run unpickles the file
LoadUncached(c, d) ==
  IF d # <<>>
  THEN [ok |-> TRUE, value |-> d, cache |-> <<>>, attempted |-> TRUE]
  ELSE [ok |-> FALSE, value |-> <<>>, cache |-> <<>>, attempted |-> TRUE]

\* variant: the cache also remembers a failed load (as entry <<0>>)
LoadCachingFailure(c, d) ==
  IF c = <<0>>
  THEN [ok |-> FALSE, value |-> <<>>, cache |-> c, attempted |-> FALSE]
  ELSE IF c # <<>>
  THEN [ok |-> TRUE, value |-> c, cache |-> c, attempted |-> FALSE]
  ELSE IF d # <<>>
  THEN [ok |-> TRUE, value |-> d, cache |-> d, attempted |-> TRUE]
  ELSE [ok |-> FALSE, value |-> <<>>, cache |-> <<0>>, attempted |-> TRUE]

\* @st.cache_resource def load_prediction_model(): joblib.load(...)
\* a cached value is returned without running the body; an exception of the
\* body is raised to the caller and nothing is stored
load_prediction_model(c, d) ==
  IF c # <<>> THEN [ok |-> TRUE, value |-> c, cache |-> c, attempted |-> FALSE]
  ELSE IF d # <<>>
       THEN [ok |-> TRUE, value |-> d, cache |-> d, attempted |-> TRUE]
       ELSE [ok |-> FALSE, value |-> <<>>, cache |-> c, attempted |-> TRUE]

\* variant: st.stop() is missing from the except branch
LoadGuardNoStop(ok) == "form"

\* try: model = load_prediction_model() / except: st.error(..); st.stop()
LoadGuard(ok) == IF ok THEN "form" ELSE "idle"

\* variant: the result block is not guarded by the button
RunsAlways(btn) == TRUE

\* if predict_btn:
RunsAssessment(btn) == btn

\* (height / 100) ** 2 and float(weight), for every value the widgets accept
HeightSquared ==
  [h \in MinHeight..MaxHeight |->
     LET metres == FloatLiteral(h, 100) IN FloatMul(metres, metres)]

WeightFloat == [w \in MinWeight..MaxWeight |-> FloatFromInt(w)]

\* bmi = weight / ((height / 100) ** 2)
Bmi(height, weight) == FloatDiv(WeightFloat[weight], HeightSquared[height])

\* variant: the difference is clamped at zero
BpDiffClamped(ap_hi, ap_lo) == IF ap_hi < ap_lo THEN 0 ELSE ap_hi - ap_lo

\* bp_diff = ap_hi - ap_lo
BpDiff(ap_hi, ap_lo) == ap_hi - ap_lo

\* if bmi < 18.5: .. elif bmi < 25: .. elif bmi < 30: .. else: ..
BmiCat(bmi) ==
  IF FloatLess(bmi, Float18_5) THEN 0
  ELSE IF FloatLess(bmi, Float25) THEN 1
  ELSE IF FloatLess(bmi, Float30) THEN 2
  ELSE 3

\* input_data = pd.DataFrame([{...}])
FeatureRecord(w) ==
  LET bmi == Bmi(w.height, w.weight)
  IN  [age_years |-> w.age_years, height |-> w.height, weight |-> w.weight,
       ap_hi |-> w.ap_hi, ap_lo |-> w.ap_lo, bmi |-> bmi,
       bp_diff |-> BpDiff(w.ap_hi, w.ap_lo), gender |-> w.gender,
       cholesterol |-> w.cholesterol, gluc |-> w.gluc, smoke |-> w.smoke,
       active |-> w.active, alco |-> w.alco, bmi_cat |-> BmiCat(bmi)]

\* variant: min instead of max
ConfidenceOfMin(row) ==
  FloatMul(IF FloatLess(RowFloat(row, 1), RowFloat(row, 2))
           THEN RowFloat(row, 1) ELSE RowFloat(row, 2), Hundred)

\* confidence = max(model.predict_proba(input_data)[0]) * 100
Confidence(row) == FloatMul(FloatMax(RowFloat(row, 1), RowFloat(row, 2)), Hundred)

\* variant: <= in place of <
RiskLabelInclusive(p) ==
  IF ~FloatLess(Float0_35, p) THEN "Low Risk"
  ELSE IF ~FloatLess(Float0_65, p) THEN "Moderate Risk"
  ELSE "High Risk"

\* if probability < 0.35: .. elif probability < 0.65: .. else: ..
RiskLabel(p) ==
  IF FloatLess(p, Float0_35) THEN "Low Risk"
  ELSE IF FloatLess(p, Float0_65) THEN "Moderate Risk"
  ELSE "High Risk"

RiskCss(p) ==
  IF FloatLess(p, Float0_35) THEN "risk-low"
  ELSE IF FloatLess(p, Float0_65) THEN "risk-moderate"
  ELSE "risk-high"

\* the risk badge: label and f"{probability*100:.1f}%" in tenths of a percent
Badge(p) ==
  [label |-> RiskLabel(p), css |-> RiskCss(p),
   pct |-> FormatFixed(FloatMul(p, Hundred), 10)]

\* the metrics row: f"{bmi:.1f}" in tenths, f"{ap_hi}/{ap_lo}",
\* f"{bp_diff}", f"{confidence:.0f}%"
Metrics(r, conf) ==
  [bmi |-> FormatFixed(r.bmi, 10),
   bmi_delta |-> IF ~FloatLess(r.bmi, Float18_5)
                    /\ FloatLess(r.bmi, Float25)
                 THEN "Normal" ELSE "Attention",
   bp |-> <<r.ap_hi, r.ap_lo>>,
   bp_delta |-> IF r.ap_hi > 120 THEN "Elevated" ELSE "Normal",
   pulse |-> r.bp_diff,
   pulse_delta |-> IF r.bp_diff > 60 THEN "Wide" ELSE "Normal",
   confidence |-> FormatFixed(conf, 1)]

\* variant: the failed call is tried again
RetryOnClassifierError(disp, here) == [pc |-> here, display |-> disp]

\* an exception of a classifier call is not caught by the script: the script
\* runner reports it and the run ends
OnClassifierError(disp, here) ==
  [pc |-> "idle", display |-> [disp EXCEPT !.exception = TRUE]]

----------------------------------------------------------------------------
(* Script runs.  Streamlit runs the script top to bottom for a new session *)
(* and again after every widget interaction; the page shows what the       *)
(* latest run rendered.  The button is True only in the run its press      *)
(* triggered.                                                              *)

BeginRun(btn) ==
  /\ pc' = "load"
  /\ predict_btn' = btn
  /\ model' = <<>>
  /\ input_data' = <<>>
  /\ prediction' = <<>>
  /\ probability' = <<>>
  /\ confidence' = <<>>
  /\ calls' = <<>>
  /\ raised' = FALSE
  /\ display' = EmptyDisplay
  /\ loadAttemptsRun' = 0
  /\ runLoadFailed' = FALSE

Init ==
  /\ disk \in {<<>>} \cup {<<k>> : k \in Classifiers}
  /\ cache = <<>>
  /\ loads = 0
  /\ widgets = DefaultWidgets
  /\ predict_btn = FALSE
  /\ pc = "load"
  /\ model = <<>>
  /\ input_data = <<>>
  /\ prediction = <<>>
  /\ probability = <<>>
  /\ confidence = <<>>
  /\ calls = <<>>
  /\ raised = FALSE
  /\ display = EmptyDisplay
  /\ loadAttemptsRun = 0
  /\ runLoadFailed = FALSE
  /\ sessionFailed = FALSE

\* a browser opens (or reloads) the page: new session, widgets at defaults
NewSession ==
  /\ pc = "idle"
  /\ widgets' = DefaultWidgets
  /\ sessionFailed' = FALSE
  /\ BeginRun(FALSE)
  /\ UNCHANGED <<disk, cache, loads>>

\* the user changes one widget of the rendered form
EditInput ==
  /\ pc = "idle"
  /\ display.form
  /\ \E f \in WidgetNames : \E v \in WidgetSamples[f] \ {widgets[f]} :
       widgets' = [widgets EXCEPT ![f] = v]
  /\ BeginRun(FALSE)
  /\ UNCHANGED <<disk, cache, loads, sessionFailed>>

\* the user presses "Run Assessment"
PressButton ==
  /\ pc = "idle"
  /\ display.form
  /\ BeginRun(TRUE)
  /\ UNCHANGED <<disk, cache, loads, widgets, sessionFailed>>

\* the user reruns the script from the app menu
Rerun ==
  /\ pc = "idle"
  /\ BeginRun(FALSE)
  /\ UNCHANGED <<disk, cache, loads, widgets, sessionFailed>>

\* the artifact file is installed, replaced or removed
ReplaceArtifact ==
  /\ \E d \in ({<<>>} \cup {<<k>> : k \in Classifiers}) \ {disk} : disk' = d
  /\ UNCHANGED <<cache, loads, widgets, predict_btn, pc, model, input_data,
                 prediction, probability, confidence, calls, raised, display,
                 loadAttemptsRun, runLoadFailed, sessionFailed>>

\* lines 153-161
LoadModel ==
  /\ pc = "load"
  /\ LET r == load_prediction_model(cache, disk)
     IN  /\ cache' = r.cache
         /\ loadAttemptsRun' = IF r.attempted THEN loadAttemptsRun + 1
                               ELSE loadAttemptsRun
         /\ loads' = IF r.attempted /\ r.ok /\ loads < MaxLoads
                     THEN loads + 1 ELSE loads
         /\ model' = r.value
         /\ pc' = LoadGuard(r.ok)
         /\ runLoadFailed' = ~r.ok
         /\ sessionFailed' = (sessionFailed \/ ~r.ok)
         /\ display' = IF r.ok THEN display
                       ELSE [display EXCEPT !.load_error = TRUE]
  /\ UNCHANGED <<disk, widgets, predict_btn, input_data, prediction,
                 probability, confidence, calls, raised>>

\* lines 167-238, and 305-360 when the button was not pressed
RenderForm ==
  /\ pc = "form"
  /\ LET shown == [display EXCEPT
                     !.form = TRUE,
                     !.caption = <<FormatFixed(Bmi(widgets.height,
                                                   widgets.weight), 10)>>]
     IN  IF RunsAssessment(predict_btn)
         THEN /\ input_data' = <<FeatureRecord(widgets)>>
              /\ display' = [shown EXCEPT !.rule = TRUE]
              /\ pc' = "predict"
         ELSE /\ input_data' = input_data
              /\ display' = [shown EXCEPT !.tabs = TRUE]
              /\ pc' = "idle"
  /\ UNCHANGED <<disk, cache, loads, widgets, predict_btn, model, prediction,
                 probability, confidence, calls, raised, loadAttemptsRun,
                 runLoadFailed, sessionFailed>>

\* a classifier call: it returns, or it raises (also when model is unbound)
Call(op, here, next) ==
  /\ pc = here
  /\ \E fails \in BOOLEAN :
       IF fails \/ model = <<>>
       THEN LET h == OnClassifierError(display, here)
            IN  /\ raised' = TRUE
                /\ pc' = h.pc
                /\ display' = h.display
                /\ calls' = Append(calls, [op |-> op, model |-> model,
                                           arg |-> input_data, ret |-> <<>>])
                /\ UNCHANGED <<prediction, probability, confidence>>
       ELSE LET row == PredictProbaRow(model[1], input_data[1])
                cls == PredictClass(model[1], input_data[1])
            IN  /\ raised' = raised
                /\ pc' = next
                /\ display' = display
                /\ calls' = Append(calls,
                     [op |-> op, model |-> model, arg |-> input_data,
                      ret |-> IF op = "predict" THEN <<cls>> ELSE row])
                /\ prediction' = IF here = "predict" THEN <<cls>>
                                 ELSE prediction
                /\ probability' = IF here = "proba1" THEN <<RowFloat(row, 2)>>
                                  ELSE probability
                /\ confidence' = IF here = "proba2" THEN <<Confidence(row)>>
                                 ELSE confidence
  /\ UNCHANGED <<disk, cache, loads, widgets, predict_btn, model, input_data,
                 loadAttemptsRun, runLoadFailed, sessionFailed>>

\* line 240: prediction = model.predict(input_data)[0]
Predict == Call("predict", "predict", "proba1")

\* line 241: probability = model.predict_proba(input_data)[0][1]
PredictProba1 == Call("predict_proba", "proba1", "proba2")

\* line 242: confidence = max(model.predict_proba(input_data)[0]) * 100
PredictProba2 == Call("predict_proba", "proba2", "render")

\* lines 244-360
RenderResult ==
  /\ pc = "render"
  /\ display' = [display EXCEPT
                   !.badge = <<Badge(probability[1])>>,
                   !.radar = TRUE,
                   !.metrics = <<Metrics(input_data[1], confidence[1])>>,
                   !.tabs = TRUE]
  /\ pc' = "idle"
  /\ UNCHANGED <<disk, cache, loads, widgets, predict_btn, model, input_data,
                 prediction, probability, confidence, calls, raised,
                 loadAttemptsRun, runLoadFailed, sessionFailed>>

Next ==
  \/ NewSession
  \/ EditInput
  \/ PressButton
  \/ Rerun
  \/ ReplaceArtifact
  \/ LoadModel
  \/ RenderForm
  \/ Predict
  \/ PredictProba1
  \/ PredictProba2
  \/ RenderResult

Spec == Init /\ [][Next]_vars

----------------------------------------------------------------------------
(* Specifications for the pure pieces: the initial states are states of    *)
(* the program in the middle of an assessment run, with the inputs drawn   *)
(* from their whole ranges, and the steps are the script's own.            *)

\* a run that has loaded classifier k and is about to render the form with
\* widget values w, the button pressed
AtForm(k, w) ==
  /\ disk = <<k>>
  /\ cache = <<k>>
  /\ loads = 1
  /\ widgets = w
  /\ predict_btn = TRUE
  /\ pc = "form"
  /\ model = <<k>>
  /\ input_data = <<>>
  /\ prediction = <<>>
  /\ probability = <<>>
  /\ confidence = <<>>
  /\ calls = <<>>
  /\ raised = FALSE
  /\ display = EmptyDisplay
  /\ loadAttemptsRun = 1
  /\ runLoadFailed = FALSE
  /\ sessionFailed = FALSE

\* every height and weight the number_input widgets accept
InitDerive ==
  \E h \in MinHeight..MaxHeight : \E w \in MinWeight..MaxWeight :
    AtForm(1, [DefaultWidgets EXCEPT !.height = h, !.weight = w])

SpecDerive == InitDerive /\ [][RenderForm]_vars

\* every systolic and diastolic value the number_input widgets accept
InitBp ==
  \E hi \in MinApHi..MaxApHi : \E lo \in MinApLo..MaxApLo :
    AtForm(1, [DefaultWidgets EXCEPT !.ap_hi = hi, !.ap_lo = lo])

NextAssess ==
  \/ RenderForm
  \/ Predict
  \/ PredictProba1
  \/ PredictProba2
  \/ RenderResult

SpecBp == InitBp /\ [][NextAssess]_vars

\* every classifier answer on the grid: as k runs over 1..ProbGrid + 1 the
\* positive-class probability of the default record runs over 0..ProbGrid
InitInfer ==
  \E k \in 1..(ProbGrid + 1) : AtForm(k, DefaultWidgets)

SpecInfer == InitInfer /\ [][NextAssess]_vars

----------------------------------------------------------------------------
(* Properties.                                                             *)

InferencePcs == {"predict", "proba1", "proba2"}

CallsOf(op) == {i \in 1..Len(calls) : calls[i].op = op}

Completed == display.badge # <<>>

\* the thresholds 0.35 and 0.65 on the probability grid
Low35 == (35 * ProbGrid) \div 100
High65 == (65 * ProbGrid) \div 100

MaxOf(row) == IF row[1] > row[2] THEN row[1] ELSE row[2]

\* C1: the badge's label is decided by the positive-class probability p that
\* predict_proba returned alone: Low Risk for p < 0.35, Moderate Risk for
\* 0.35 <= p < 0.65, High Risk for p >= 0.65.
C1_RiskTier ==
  Completed =>
    LET k == calls[2].ret[2]
        label == display.badge[1].label
    IN  /\ (k < Low35) <=> (label = "Low Risk")
        /\ (k >= Low35 /\ k < High65) <=> (label = "Moderate Risk")
        /\ (k >= High65) <=> (label = "High Risk")

C1_Witness ==
  /\ Completed
  /\ calls[2].ret[2] = Low35
  /\ display.badge[1].label = "Moderate Risk"

\* the bucket of the exact quotient weight / (height / 100)^2
ExactBmiCat(h, w) ==
  IF 2 * w * 10000 < 37 * h * h THEN 0
  ELSE IF w * 10000 < 25 * h * h THEN 1
  ELSE IF w * 10000 < 30 * h * h THEN 2
  ELSE 3

\* C2: the bmi_cat of the feature record is the half-open bucket of
\* weight / (height / 100)^2, a BMI of exactly 18.5, 25 or 30 falling in the
\* upper bucket.
C2_BmiCatBucket ==
  input_data # <<>> =>
    input_data[1].bmi_cat = ExactBmiCat(widgets.height, widgets.weight)

\* C3: an assessment invokes predict once and predict_proba once, on the
\* feature record of the assessment; there is no second predict_proba call.
C3_OneCallEach ==
  /\ Cardinality(CallsOf("predict")) <= 1
  /\ Cardinality(CallsOf("predict_proba")) <= 1
  /\ \A i \in 1..Len(calls) : calls[i].arg = input_data
  /\ Completed => /\ Cardinality(CallsOf("predict")) = 1
                  /\ Cardinality(CallsOf("predict_proba")) = 1

\* C4: when a classifier call raises, the run ends there with the exception
\* reported: no badge, radar chart or metrics row, no value put in place of
\* the missing one, and no further classifier call in that run.
C4_InferenceErrorFailsRun ==
  /\ raised <=> display.exception
  /\ raised =>
       /\ pc = "idle"
       /\ display.badge = <<>>
       /\ ~display.radar
       /\ display.metrics = <<>>
       /\ Len(calls) <= 3
       /\ calls[Len(calls)].ret = <<>>
       /\ \A i \in 1..(Len(calls) - 1) : calls[i].ret # <<>>
       /\ \A i, j \in 1..Len(calls) :
            calls[i].op = "predict" /\ calls[j].op = "predict" => i = j
       /\ (Len(calls) < 2 => probability = <<>>)
       /\ confidence = <<>>

C4_Witness ==
  /\ raised
  /\ Len(calls) = 2
  /\ prediction # <<>>
  /\ display.exception
  /\ display.form

\* C5: a run whose load fails shows the load error and nothing else: it stops
\* before the form, calls the classifier never and shows no result.
C5_LoadFailureStopsRun ==
  /\ display.load_error <=> runLoadFailed
  /\ runLoadFailed =>
       /\ pc = "idle"
       /\ model = <<>>
       /\ ~display.form
       /\ ~display.rule
       /\ ~display.exception
       /\ display.badge = <<>>
       /\ ~display.radar
       /\ display.metrics = <<>>
       /\ ~display.tabs
       /\ calls = <<>>
       /\ input_data = <<>>

C5_Witness ==
  /\ runLoadFailed
  /\ display.load_error
  /\ pc = "idle"

\* C6 as stated: once a load has failed in a session, no later run of the
\* session attempts the load and no run of it reaches inference or a result.
C6_FailureFatalForSession ==
  /\ [](sessionFailed => pc \notin InferencePcs /\ ~Completed)
  /\ [][sessionFailed => loadAttemptsRun' <= loadAttemptsRun]_vars

\* C6 amended: a load failure is fatal for the run it occurs in and is not
\* retried within that run; it is not remembered, so every run that finds the
\* cache empty attempts the load itself, and inference is reached exactly in
\* runs that hold the loaded instance.
C6_FailureFatalForRun ==
  /\ [](/\ loadAttemptsRun <= 1
        /\ runLoadFailed =>
             /\ loadAttemptsRun = 1
             /\ pc = "idle"
             /\ cache = <<>>
             /\ calls = <<>>
        /\ pc \in InferencePcs \cup {"render"} =>
             /\ ~runLoadFailed
             /\ cache # <<>>
             /\ model = cache)
  /\ [][(pc = "load" /\ pc' # "load" /\ cache = <<>>) =>
          (loadAttemptsRun' = 1 /\ (disk # <<>> => pc' = "form"))]_vars

C6_Witness ==
  /\ sessionFailed
  /\ Completed

\* C7: the artifact is loaded at most once in the process; every run and
\* every classifier call uses that instance, which is never replaced.
C7_LoadedOnce ==
  /\ [](/\ loads <= 1
        /\ cache # <<>> <=> loads = 1
        /\ model \in {<<>>, cache}
        /\ \A i \in 1..Len(calls) : calls[i].model = cache)
  /\ [][cache # <<>> => cache' = cache]_vars

C7_Witness ==
  /\ Completed
  /\ loads = 1
  /\ disk # <<>>
  /\ disk # cache
  /\ calls[3].model = cache

C9_BpDiffSigned ==
  /\ input_data # <<>> =>
       input_data[1].bp_diff + widgets.ap_lo = widgets.ap_hi
  /\ display.metrics # <<>> =>
       display.metrics[1].pulse + widgets.ap_lo = widgets.ap_hi

C9_Witness ==
  /\ display.metrics # <<>>
  /\ widgets.ap_hi < widgets.ap_lo
  /\ display.metrics[1].pulse < 0
  /\ input_data[1].bp_diff = display.metrics[1].pulse

\* C10: a result is on the page only in a run the button was pressed for, and
\* what is shown comes from this run's calls on this run's feature record,
\* which holds the current widget values.
C10_NoStaleResult ==
  (display.badge # <<>> \/ display.metrics # <<>> \/ display.radar) =>
    /\ predict_btn
    /\ pc = "idle"
    /\ display.badge # <<>>
    /\ display.metrics # <<>>
    /\ input_data # <<>>
    /\ \A f \in WidgetNames : input_data[1][f] = widgets[f]
    /\ Len(calls) = 3
    /\ \A i \in 1..3 : /\ calls[i].arg = input_data
                       /\ calls[i].model = cache
                       /\ calls[i].ret # <<>>
    /\ display.badge[1].pct = calls[2].ret[2]
    /\ 10 * display.metrics[1].confidence - MaxOf(calls[3].ret) \in (0 - 5)..5
    /\ display.metrics[1].bp = <<widgets.ap_hi, widgets.ap_lo>>
    /\ display.metrics[1].pulse = widgets.ap_hi - widgets.ap_lo
    /\ LET err == display.metrics[1].bmi * widgets.height * widgets.height
                  - widgets.weight * 100000
       IN  /\ 2 * err <= widgets.height * widgets.height
           /\ 0 - 2 * err <= widgets.height * widgets.height

C10_Witness ==
  /\ Completed
  /\ predict_btn
  /\ widgets.height = 160
  /\ widgets.weight = 64
  /\ widgets.ap_hi < widgets.ap_lo
  /\ display.metrics[1].bmi = 250

====
